---- MODULE Spec2Model ----
(***************************************************************************)
(* Sticky states (src/src/sticky.js): the decorated $state.transitionTo,   *)
(* its restore() ledger, the surrogate state factories, the substitution   *)
(* of toState.path / fromState.path and the settle handlers, together with *)
(* the collaborators the decorated function drives: the $stickyState       *)
(* service (planner and inactive registry) and the stock transition        *)
(* engine ($state_transitionTo).                                           *)
(***************************************************************************)
EXTENDS Integers, Sequences, FiniteSets, TLC

\* ------------------------------------------------------------------ bounds
\* Number of calls of the decorated $state.transitionTo in one behaviour.
MaxRequests == 3

\* Calls of transitionTo in a behaviour of SpecDeep, whose calls go to A, A.B
\* and P with the parameter unchanged, or to an unknown name and throw.
MaxDeepRequests == 5

\* Calls of transitionTo in a behaviour of SpecScenario, whose calls go to the
\* root, to A.X, to P and to P.S.
MaxScenarioRequests == 3

\* Calls of transitionTo in a behaviour of SpecOrphans, whose calls go to A,
\* A.B, AB and P.
MaxOrphanRequests == 4
MaxUpdateRequests == 4
MaxReloadRequests == 3

\* ------------------------------------------------------------ the state tree
\* root "" -> A (sticky) -> A.B (sticky) -> A.B.C (sticky);  root -> P (not sticky);
\* A -> A.X (not sticky itself);  P -> P.S (sticky);  root -> AB (sticky)
Nodes == {"", "A", "A.B", "A.B.C", "A.X", "AB", "P", "P.S"}

\* A name $state.get() does not resolve.
UnknownNames == {"Z"}

\* The registered names the callers of the model ask for, and the one target
\* they ask for with either value of the parameter.
RequestTargets == {"A", "A.B", "A.B.C", "P"}

ParamTarget == "A"

Parent(n) ==
  CASE n = "A" -> ""
    [] n = "A.B" -> "A"
    [] n = "A.B.C" -> "A.B"
    [] n = "A.X" -> "A"
    [] n = "P.S" -> "P"
    [] n = "P" -> ""
    [] OTHER -> ""

\* state.self.name as a character string
NameChars(n) ==
  CASE n = "" -> << >>
    [] n = "A" -> <<"A">>
    [] n = "A.B" -> <<"A", ".", "B">>
    [] n = "A.B.C" -> <<"A", ".", "B", ".", "C">>
    [] n = "A.X" -> <<"A", ".", "X">>
    [] n = "AB" -> <<"A", "B">>
    [] n = "P.S" -> <<"P", ".", "S">>
    [] n = "P" -> <<"P">>
    [] OTHER -> <<"Z">>

StickyFlag(n) == n \in {"A", "A.B", "A.B.C", "AB", "P.S"}

\* Nodes whose declared params hold the one parameter of the model (declared by A).
HasParam(n) == n \in {"A", "A.B", "A.B.C", "A.X"}

\* The node that declares the parameter in its ownParams.
OwnsParam(n) == n = "A"

ParamValues == {0, 1}

RECURSIVE AncestorNames(_)
AncestorNames(n) == IF n = "" THEN <<"">> ELSE Append(AncestorNames(Parent(n)), n)

IsProperDescendant(d, a) ==
  /\ d # a
  /\ \E i \in 1..Len(AncestorNames(d)) : AncestorNames(d)[i] = a

\* ------------------------------------------------------------ path elements
\* A path element is a state object or a surrogate.  k is surrogateType ("real"
\* for an internal state object), n its self.name, t the request that built the
\* surrogate (0 for a state object), self names the .self object it carries:
\* <<n, 0>> is the state's own self, <<n, t>> the copy made by request t's
\* phase-1 surrogate.
Real(n) == [k |-> "real", n |-> n, t |-> 0, self |-> <<n, 0>>]

IsReal(e) == e.k = "real"

\* A .path array: by is the request that built the array (0: the state's own
\* ancestor chain), els its elements.
PathArr(by, els) == [by |-> by, els |-> els]

NoArr == PathArr(-1, << >>)

RECURSIVE RealEls(_)
RealEls(names) ==
  IF names = << >> THEN << >>
  ELSE <<Real(Head(names))>> \o RealEls(Tail(names))

RealPath(n) == PathArr(0, RealEls(AncestorNames(n)))

\* The calls of transitionTo a behaviour can hold.
MaxCalls == IF MaxDeepRequests > MaxRequests THEN MaxDeepRequests ELSE MaxRequests

Reqs == 1..MaxCalls

SelfIds == {<<n, t>> : n \in Nodes, t \in 0..MaxCalls}

VARIABLES
  path,                \* state.path of every internal state
  onEnter,             \* self.onEnter of every self object: the stack of wrappers over the original hook
  onExit,              \* self.onExit likewise
  locals,              \* state.locals of every internal state: 0 null, else the request that resolved it
  inactiveStates,      \* $stickyState: the inactive states, in order of inactivation
  inactiveParams,      \* $stickyState: the parameter value each node was inactivated with
  ipLocals,            \* inactivePseudoState.locals: for key "view@n" the locals object the view came from, 0 absent
  ipOther,             \* inactivePseudoState.locals: the value held under a key without "@", 0 absent
  reloadParam,         \* per node: how many entries $$uirouterextrasreload has in its params and in its ownParams
  hasParamSet,         \* versionHeuristics.hasParamSet
  pendingTransitions,  \* module variable pendingTransitions
  pendingRestore,      \* module variable pendingRestore: 0, or the request whose restore function it is
  tr,                  \* per call of transitionTo: its closure variables and the engine's promise
  current,             \* $state.$current
  params,              \* $state.params
  transition,          \* $state.transition: the request of the engine's latest transition
  nreq,                \* calls of transitionTo so far
  ran,                 \* per request: executions of the body of its restore function
  retained,            \* per node: the locals it held when stateInactivated last recorded it
  ev                   \* the step just taken

vars == <<path, onEnter, onExit, locals, inactiveStates, inactiveParams, ipLocals, ipOther,
          reloadParam, hasParamSet,
          pendingTransitions, pendingRestore, tr, current, params, transition,
          nreq, ran, retained, ev>>

\* No restore function ran in the step.
NoMid == [path |-> << >>, onEnter |-> << >>, onExit |-> << >>]

\* The program state as one value, threaded through the handlers' statements;
\* fired collects the hooks the engine invokes in the step and mid the paths
\* and hook slots as the body of a restore function leaves them in the step.
World ==
  [path |-> path, onEnter |-> onEnter, onExit |-> onExit, locals |-> locals,
   inactiveStates |-> inactiveStates, inactiveParams |-> inactiveParams,
   ipLocals |-> ipLocals, ipOther |-> ipOther, reloadParam |-> reloadParam,
   hasParamSet |-> hasParamSet, pendingTransitions |-> pendingTransitions,
   pendingRestore |-> pendingRestore, tr |-> tr, current |-> current,
   params |-> params, transition |-> transition, ran |-> ran,
   retained |-> retained, fired |-> << >>, mid |-> NoMid]

Store(w) ==
  /\ path' = w.path
  /\ onEnter' = w.onEnter
  /\ onExit' = w.onExit
  /\ locals' = w.locals
  /\ inactiveStates' = w.inactiveStates
  /\ inactiveParams' = w.inactiveParams
  /\ ipLocals' = w.ipLocals
  /\ ipOther' = w.ipOther
  /\ reloadParam' = w.reloadParam
  /\ hasParamSet' = w.hasParamSet
  /\ pendingTransitions' = w.pendingTransitions
  /\ pendingRestore' = w.pendingRestore
  /\ tr' = w.tr
  /\ current' = w.current
  /\ params' = w.params
  /\ transition' = w.transition
  /\ ran' = w.ran
  /\ retained' = w.retained

\* The closure of a call that has not happened yet.
NoCall ==
  [pc |-> "none", accepted |-> FALSE, idx |-> 0, noop |-> FALSE,
   savedToStatePath |-> NoArr, savedFromStatePath |-> NoArr,
   toState |-> "", fromState |-> "", toParams |-> 0, fromParams |-> 0,
   restoreFunctions |-> << >>, exited |-> << >>,
   before |-> [onEnter |-> << >>, onExit |-> << >>],
   toPath |-> << >>, fromPath |-> << >>, keep |-> 0, value |-> "",
   asked |-> "none", reload |-> "none", reloadStateTree |-> "none",
   paramsBefore |-> << >>]

\* The state after the decorator has run, but for the keys without "@" of
\* inactivePseudoState.locals.
InitTree ==
  /\ path = [n \in Nodes |-> RealPath(n)]
  /\ onEnter = [s \in SelfIds |-> << >>]
  /\ onExit = [s \in SelfIds |-> << >>]
  /\ locals = [n \in Nodes |-> 0]
  /\ inactiveStates = << >>
  /\ inactiveParams = [n \in Nodes |-> 0]
  /\ ipLocals = [n \in Nodes |-> 0]
  /\ reloadParam = [n \in Nodes |-> [params |-> 0, ownParams |-> 0]]
  /\ pendingTransitions = << >>
  /\ pendingRestore = 0
  /\ tr = [t \in Reqs |-> NoCall]
  /\ current = ""
  /\ params = 0
  /\ transition = 0
  /\ nreq = 0
  /\ ran = [t \in Reqs |-> 0]
  /\ retained = [n \in Nodes |-> 0]
  /\ ev = [type |-> "init", t |-> 0, out |-> [kind |-> "none", val |-> ""],
           got |-> [kind |-> "none", val |-> ""], fired |-> << >>,
           mid |-> [path |-> << >>, onEnter |-> << >>, onExit |-> << >>],
           latched |-> FALSE]

\* inactivePseudoState.locals is built with the one key globals, which the
\* decorator deletes.
Init == InitTree /\ ipOther = 0 /\ hasParamSet = TRUE

\* The map may hold a value under a key without "@" when the calls begin.
InitRefresh == InitTree /\ ipOther \in {0, 1} /\ hasParamSet = TRUE

\* The engine's parameters are a ParamSet, or arrays of names as in its
\* earlier versions.
InitReload == InitTree /\ ipOther = 0 /\ hasParamSet \in BOOLEAN


\* ------------------------------------------------- small sequence helpers
RECURSIVE SeqHas(_, _)
SeqHas(s, x) == IF s = << >> THEN FALSE ELSE (Head(s) = x \/ SeqHas(Tail(s), x))

RECURSIVE SeqWithout(_, _)
SeqWithout(s, x) ==
  IF s = << >> THEN << >>
  ELSE IF Head(s) = x THEN SeqWithout(Tail(s), x)
  ELSE <<Head(s)>> \o SeqWithout(Tail(s), x)

RECURSIVE Reverse(_)
Reverse(s) == IF s = << >> THEN << >> ELSE Append(Reverse(Tail(s)), Head(s))

\* Array.prototype.splice(i, 1) with a 0-based index: an index past the end removes nothing.
Splice1(s, i) ==
  IF i + 1 > Len(s) THEN s
  ELSE SubSeq(s, 1, i) \o SubSeq(s, i + 2, Len(s))

\* String.prototype.indexOf(prefix) === 0
StartsWith(s, prefix) ==
  /\ Len(prefix) <= Len(s)
  /\ SubSeq(s, 1, Len(prefix)) = prefix

\* The value "undefined" of a parameter argument that was not passed.
Undefined == -1

\* -------------------------------------------------- $stickyState (registry)
\* The locals object a path element carries: a state's own locals; the
\* reactivate surrogates carry the state's locals; an inactivate surrogate is
\* built blank.
ElemLocals(w, e) == IF e.k = "inactivate" THEN 0 ELSE w.locals[e.n]

getInactiveStates(w) == w.inactiveStates

\* The exit hook of an inactivated state: the node joins the registry with the
\* parameters it was active with, and its view layers go to the aggregated map.
stateInactivated(w, e) ==
  [w EXCEPT !.inactiveStates = IF SeqHas(@, e) THEN @ ELSE Append(@, e),
            !.inactiveParams[e.n] = w.params,
            !.ipLocals[e.n] = IF ElemLocals(w, e) # 0 THEN ElemLocals(w, e) ELSE @,
            !.retained[e.n] = ElemLocals(w, e)]

\* The enter hook of a reactivated state: the node leaves the registry.
stateReactivated(w, e) ==
  [w EXCEPT !.inactiveStates = SeqWithout(@, e)]

\* An inactive node is dropped for good with the data retained for it.
DiscardInactive(w, e) ==
  [w EXCEPT !.inactiveStates = SeqWithout(@, e),
            !.ipLocals[e.n] = 0,
            !.locals[e.n] = IF IsReal(e) THEN 0 ELSE @]

RECURSIVE DiscardAll(_, _)
DiscardAll(w, es) ==
  IF es = << >> THEN w ELSE DiscardAll(DiscardInactive(w, Head(es)), Tail(es))

\* Inactive descendants of e whose parameters are not prm.
StaleDescendants(w, e, prm) ==
  SelectSeq(w.inactiveStates,
            LAMBDA d : /\ IsProperDescendant(d.n, e.n)
                       /\ HasParam(d.n)
                       /\ w.inactiveParams[d.n] # prm)

\* The enter hook of an entered state: the node is active with its resolved
\* params; with updateParams the inactive descendants with stale params go.
stateEntering(w, e, prm, updateParams) ==
  LET w1 == [w EXCEPT !.inactiveStates = SeqWithout(@, e)]
  IN IF updateParams THEN DiscardAll(w1, StaleDescendants(w1, e, prm)) ELSE w1

\* The exit hook of an exited state: the node and its retained data go.
stateExiting(w, e, exitQueue) ==
  [w EXCEPT !.inactiveStates = SeqWithout(@, e),
            !.ipLocals[e.n] = 0]

\* ------------------------------------------- $stickyState.processTransition
RECURSIVE PivotFrom(_, _, _)
PivotFrom(fp, tp, i) ==
  IF i <= Len(fp) /\ i <= Len(tp) /\ fp[i] = tp[i] THEN PivotFrom(fp, tp, i + 1) ELSE i - 1

\* Number of leading elements the two paths share.
Keep(fp, tp) == PivotFrom(fp, tp, 1)

ParamsUnchanged(w, e, toParams) == HasParam(e.n) => w.inactiveParams[e.n] = toParams

EnterClass(w, e, toParams) ==
  IF SeqHas(w.inactiveStates, e)
  THEN (IF ParamsUnchanged(w, e, toParams) THEN "reactivate" ELSE "updateStateParams")
  ELSE "enter"

\* Sticky directly or through an ancestor's marker.
RECURSIVE StickyTransitive(_)
StickyTransitive(n) ==
  IF StickyFlag(n) THEN TRUE ELSE IF n = "" THEN FALSE ELSE StickyTransitive(Parent(n))

ExitClass(e, target) ==
  IF StickyTransitive(e.n) /\ e # target THEN "inactivate" ELSE "exit"

processTransition(w, ct) ==
  LET tp == w.path[ct.toState].els
      fp == w.path[ct.fromState].els
      keep == Keep(fp, tp)
      enter == [i \in (keep + 1)..Len(tp) |-> EnterClass(w, tp[i], ct.toParams)]
      exit == [i \in (keep + 1)..Len(fp) |-> ExitClass(fp[i], Real(ct.toState))]
      entered == {tp[i] : i \in (keep + 1)..Len(tp)}
      terminal == Len(tp) > keep /\ enter[Len(tp)] = "reactivate"
      stay == SelectSeq(w.inactiveStates,
                LAMBDA e : /\ e \notin entered
                           /\ ~(terminal /\ IsProperDescendant(e.n, ct.toState)))
      newly == SelectSeq(SubSeq(fp, keep + 1, Len(fp)),
                LAMBDA e : ExitClass(e, Real(ct.toState)) = "inactivate")
  IN [keep |-> keep, enter |-> enter, exit |-> exit, inactives |-> stay \o newly]


\* ------------------------------------------------------- the restore ledger
\* A restore function that skips the registered restore functions.
RunRestoreFunctionsSkipped(w, fs) == w

\* The restore function of the temporary parameter: both keys are deleted, or
\* both arrays lose their last element.
RemoveReloadParam(w, n) ==
  IF w.hasParamSet
  THEN [w EXCEPT !.reloadParam[n] = [params |-> 0, ownParams |-> 0]]
  ELSE [w EXCEPT !.reloadParam[n] = [params |-> @.params - 1,
                                     ownParams |-> @.ownParams - 1]]

RECURSIVE RunRestoreFunctions(_, _)
RunRestoreFunctions(w, fs) ==
  IF fs = << >> THEN w
  ELSE LET f == Head(fs)
           w1 == CASE f.slot = "onEnter" -> [w EXCEPT !.onEnter[f.self] = f.old]
                   [] f.slot = "onExit" -> [w EXCEPT !.onExit[f.self] = f.old]
                   [] OTHER -> RemoveReloadParam(w, f.self[1])
       IN RunRestoreFunctions(w1, Tail(fs))

\* A restore function without the latch: the variable keeps the body.
SetNoopNever(w, t) == w

\* The statement "restore = noop" of the restore function.
SetNoop(w, t) == [w EXCEPT !.tr[t].noop = TRUE]

\* The statement "pendingTransitions.splice(idx, 1)" of the restore function.
RemoveTransition(w, t) ==
  [w EXCEPT !.pendingTransitions = Splice1(@, w.tr[t].idx)]

\* A restore function that puts back toState.path only.
RestoreToPathOnly(w, t) ==
  LET r == w.tr[t]
  IN IF r.savedToStatePath # NoArr
     THEN [w EXCEPT !.path[r.toState] = r.savedToStatePath,
                    !.tr[t].savedToStatePath = NoArr]
     ELSE w

\* The two "if (saved...Path)" statements of the restore function.
RestorePaths(w, t) ==
  LET r == w.tr[t]
      w1 == IF r.savedToStatePath # NoArr
            THEN [w EXCEPT !.path[r.toState] = r.savedToStatePath,
                           !.tr[t].savedToStatePath = NoArr]
            ELSE w
  IN IF r.savedFromStatePath # NoArr
     THEN [w1 EXCEPT !.path[r.fromState] = r.savedFromStatePath,
                     !.tr[t].savedFromStatePath = NoArr]
     ELSE w1

\* The statement "pendingRestore = null" of the restore function.
ClearPendingRestore(w) == [w EXCEPT !.pendingRestore = 0]

\* The restore function has run to its end: one more execution of the body of
\* request t's restore function, which left paths and hook slots as w has them.
BodyRan(w, t) ==
  [w EXCEPT !.ran[t] = @ + 1,
            !.mid = [path |-> w.path, onEnter |-> w.onEnter, onExit |-> w.onExit]]

\* The function object bound to the closure variable restore at its
\* declaration; restore.restoreFunctions is read through the variable, and noop
\* has none.
restoreBody(w, t) ==
  BodyRan(
    RemoveTransition(
      ClearPendingRestore(
        SetNoop(
          RunRestoreFunctions(
            RestorePaths(w, t),
            IF w.tr[t].noop THEN << >> ELSE w.tr[t].restoreFunctions),
          t)),
      t),
    t)

\* A call of the function the variable held at first, whatever it holds now.
restoreUnlatched(w, t) == restoreBody(w, t)

\* A call restore() through the closure variable, which is noop once the body ran.
restore(w, t) == IF w.tr[t].noop THEN w ELSE restoreBody(w, t)

\* restore.addRestoreFunction(fn)
addRestoreFunction(w, t, slot, self, old) ==
  [w EXCEPT !.tr[t].restoreFunctions =
              Append(@, [slot |-> slot, self |-> self, old |-> old])]

\* ------------------------------------------------ surrogate state factories
Wrapper(kind, t, state, prm) == [w |-> kind, t |-> t, e |-> state, prm |-> prm]

NoElem == [k |-> "none", n |-> "", t |-> 0, self |-> <<"", 0>>]

\* Each factory is given as the surrogate it returns and the world it leaves.
stateReactivatedSurrogatePhase1(t, state) ==
  [k |-> "reactivate_phase1", n |-> state.n, t |-> t, self |-> <<state.n, t>>]

stateReactivatedSurrogatePhase1World(w, t, state) ==
  [w EXCEPT !.onEnter[<<state.n, t>>] = w.onEnter[state.self],
            !.onExit[<<state.n, t>>] = w.onExit[state.self]]

stateReactivatedSurrogatePhase2(t, state) ==
  [k |-> "reactivate_phase2", n |-> state.n, t |-> t, self |-> state.self]

stateReactivatedSurrogatePhase2World(w, t, state) ==
  LET oldOnEnter == w.onEnter[state.self]
      w1 == [w EXCEPT !.onEnter[state.self] =
                         Append(oldOnEnter, Wrapper("reactivated", t, state, Undefined))]
  IN addRestoreFunction(w1, t, "onEnter", state.self, oldOnEnter)

stateInactivatedSurrogate(t, state) ==
  [k |-> "inactivate", n |-> state.n, t |-> t, self |-> state.self]

stateInactivatedSurrogateWorld(w, t, state) ==
  LET oldOnExit == w.onExit[state.self]
      w1 == [w EXCEPT !.onExit[state.self] =
                         Append(oldOnExit, Wrapper("inactivated", t, state, Undefined))]
  IN addRestoreFunction(w1, t, "onExit", state.self, oldOnExit)

stateEnteredSurrogate(w, t, state, toParams) ==
  LET oldOnEnter == w.onEnter[state.self]
      w1 == [w EXCEPT !.onEnter[state.self] =
                         Append(oldOnEnter, Wrapper("entering", t, state, toParams))]
  IN addRestoreFunction(w1, t, "onEnter", state.self, oldOnEnter)

stateUpdateParamsSurrogate(w, t, state, toParams) ==
  LET oldOnEnter == w.onEnter[state.self]
      w1 == [w EXCEPT !.onEnter[state.self] =
                         Append(oldOnEnter, Wrapper("updateParams", t, state, toParams))]
  IN addRestoreFunction(w1, t, "onEnter", state.self, oldOnEnter)

stateExitedSurrogate(w, t, state) ==
  LET oldOnExit == w.onExit[state.self]
      w1 == [w EXCEPT !.onExit[state.self] =
                         Append(oldOnExit, Wrapper("exiting", t, state, Undefined))]
  IN addRestoreFunction(w1, t, "onExit", state.self, oldOnExit)


\* ------------------------------------- the decorated $state.transitionTo
\* $state.get(to, rel): the name of the state found, "" standing for the found
\* root; an unknown name finds nothing.
StateGet(to) == to \in Nodes

\* internalStates[toStateSelf.name]
InternalState(to) == to \in Nodes

\* Array.prototype.sort() without a comparator orders by String(element): a
\* state object prints as its name, any other object as "[object Object]".
CharCode(c) ==
  CASE c = "." -> 46
    [] c = "A" -> 65
    [] c = "B" -> 66
    [] c = "C" -> 67
    [] c = "P" -> 80
    [] c = "S" -> 83
    [] c = "X" -> 88
    [] c = "[" -> 91
    [] OTHER -> 90

SortKey(e) ==
  IF e.k \in {"real", "reactivate_phase2"} THEN NameChars(e.n) ELSE <<"[">>

RECURSIVE StrLess(_, _)
StrLess(a, b) ==
  IF b = << >> THEN FALSE
  ELSE IF a = << >> THEN TRUE
  ELSE IF CharCode(Head(a)) # CharCode(Head(b)) THEN CharCode(Head(a)) < CharCode(Head(b))
  ELSE StrLess(Tail(a), Tail(b))

RECURSIVE InsertSorted(_, _)
InsertSorted(s, x) ==
  IF s = << >> THEN <<x>>
  ELSE IF StrLess(SortKey(x), SortKey(Head(s))) THEN <<x>> \o s
  ELSE <<Head(s)>> \o InsertSorted(Tail(s), x)

RECURSIVE SortByString(_)
SortByString(s) ==
  IF s = << >> THEN << >>
  ELSE InsertSorted(SortByString(SubSeq(s, 1, Len(s) - 1)), s[Len(s)])

\* inactiveOrphans.sort(); inactiveOrphans.reverse()
OrderOrphans(orphans) == Reverse(SortByString(orphans))

\* The loop over stickyTransitions.enter, from index i on.  x carries the world
\* and the local variables surrogateToPath, surrogateFromPath, reactivated,
\* terminalReactivatedState and exited of the call.
RECURSIVE EnterLoop(_, _, _, _, _)
EnterLoop(x, t, enter, toEls, i) ==
  IF i > Len(toEls) THEN x
  ELSE
    LET enteringState == toEls[i]
        value == enter[i]
        x1 ==
          IF value = "reactivate" THEN
            LET surrogate == stateReactivatedSurrogatePhase1(t, enteringState)
                w1 == stateReactivatedSurrogatePhase1World(x.w, t, enteringState)
                w2 == stateReactivatedSurrogatePhase2World(w1, t, enteringState)
            IN [x EXCEPT !.w = w2,
                         !.surrogateToPath = Append(@, surrogate),
                         !.surrogateFromPath = Append(@, surrogate),
                         !.reactivated = Append(@, stateReactivatedSurrogatePhase2(t, enteringState)),
                         !.terminalReactivatedState = enteringState]
          ELSE IF value = "updateStateParams" THEN
            [x EXCEPT !.w = stateUpdateParamsSurrogate(x.w, t, enteringState, Undefined),
                      !.surrogateToPath = Append(@, enteringState),
                      !.terminalReactivatedState = enteringState]
          ELSE IF value = "enter" THEN
            [x EXCEPT !.w = stateEnteredSurrogate(x.w, t, enteringState, Undefined),
                      !.surrogateToPath = Append(@, enteringState)]
          ELSE x
    IN EnterLoop(x1, t, enter, toEls, i + 1)

\* The loop over stickyTransitions.exit, from index i on.
RECURSIVE ExitLoop(_, _, _, _, _)
ExitLoop(x, t, exit, fromEls, i) ==
  IF i > Len(fromEls) THEN x
  ELSE
    LET exiting == fromEls[i]
        value == exit[i]
        x1 ==
          IF value = "inactivate" THEN
            [x EXCEPT !.w = stateInactivatedSurrogateWorld(x.w, t, exiting),
                      !.surrogateFromPath = Append(@, stateInactivatedSurrogate(t, exiting)),
                      !.exited = Append(@, exiting)]
          ELSE IF value = "exit" THEN
            [x EXCEPT !.w = stateExitedSurrogate(x.w, t, exiting),
                      !.surrogateFromPath = Append(@, exiting),
                      !.exited = Append(@, exiting)]
          ELSE x
    IN ExitLoop(x1, t, exit, fromEls, i + 1)

\* map(inactiveOrphans, stateExitedSurrogate)
RECURSIVE ExitOrphans(_, _, _)
ExitOrphans(w, t, orphans) ==
  IF orphans = << >> THEN w
  ELSE ExitOrphans(stateExitedSurrogate(w, t, Head(orphans)), t, Tail(orphans))

\* Orphans chosen by the name of the reactivated state without the dot.
InactiveOrphansNoDot(x, toState) ==
  IF Real(toState) = x.terminalReactivatedState
  THEN OrderOrphans(SelectSeq(getInactiveStates(x.w),
                              LAMBDA e : StartsWith(NameChars(e.n),
                                                    NameChars(x.terminalReactivatedState.n))))
  ELSE << >>

\* The orphans of the terminal reactivated state, when it is the target.
InactiveOrphans(x, toState) ==
  IF Real(toState) = x.terminalReactivatedState
  THEN LET prefix == Append(NameChars(x.terminalReactivatedState.n), ".")
       IN OrderOrphans(SelectSeq(getInactiveStates(x.w),
                                 LAMBDA e : StartsWith(NameChars(e.n), prefix)))
  ELSE << >>

\* The reload of inactivePseudoState.locals: every "@" key is deleted, then the
\* own "@" entries of the locals of the states in inactives are put in.
RECURSIVE ReloadInactiveLocals(_, _)
ReloadInactiveLocals(w, inactives) ==
  IF inactives = << >> THEN w
  ELSE LET e == Head(inactives)
           w1 == IF ElemLocals(w, e) # 0 /\ e.n # ""
                 THEN [w EXCEPT !.ipLocals[e.n] = ElemLocals(w, e)]
                 ELSE w
       IN ReloadInactiveLocals(w1, Tail(inactives))

\* A clearing loop without the test for "@": every key is deleted.
ClearEveryLocal(w) == [w EXCEPT !.ipLocals = [n \in Nodes |-> 0], !.ipOther = 0]

\* The forEach that deletes the keys with "@".
ClearInactiveLocals(w) == [w EXCEPT !.ipLocals = [n \in Nodes |-> 0]]

\* toState.path = surrogateToPath; fromState.path = surrogateFromPath
InstallPaths(w, t, toState, fromState, surrogateToPath, surrogateFromPath) ==
  LET w1 == [w EXCEPT !.path[toState] = PathArr(t, surrogateToPath)]
  IN [w1 EXCEPT !.path[fromState] = PathArr(t, surrogateFromPath)]

\* if (pendingRestore) pendingRestore()
Supersede(w) ==
  IF w.pendingRestore # 0 THEN restoreBody(w, w.pendingRestore) ELSE w

\* savedToStatePath, savedFromStatePath, pendingTransitions.push and
\* pendingRestore = restore.
SaveAndPush(w, t, to) ==
  [w EXCEPT !.tr[t].accepted = TRUE,
            !.tr[t].toState = to,
            !.tr[t].savedToStatePath = w.path[to],
            !.tr[t].savedFromStatePath = w.path[w.current],
            !.tr[t].before = [onEnter |-> w.onEnter, onExit |-> w.onExit],
            !.pendingTransitions = Append(@, t),
            !.pendingRestore = t]

\* currentTransition
CurrentTransition(w, to, toParams) ==
  [toState |-> to, toParams |-> toParams, fromState |-> w.current, fromParams |-> w.params]

\* The local variables of the call before the loops: the two slices up to keep.
StartSurrogates(w, to, fromState, keep) ==
  [w |-> w,
   surrogateToPath |-> SubSeq(w.path[to].els, 1, keep),
   surrogateFromPath |-> SubSeq(w.path[fromState].els, 1, keep),
   reactivated |-> << >>,
   terminalReactivatedState |-> NoElem,
   exited |-> << >>]

\* The phase-2 surrogates go to the end of the to-path.
AppendReactivated(x) == [x EXCEPT !.surrogateToPath = @ \o x.reactivated]

\* The exit surrogates of the orphans go to the end of the from-path.
AppendOrphans(x, t, orphans) ==
  [x EXCEPT !.w = ExitOrphans(x.w, t, orphans),
            !.surrogateFromPath = @ \o orphans,
            !.exited = @ \o orphans]

WithOrphans(x, t, to) == AppendOrphans(x, t, InactiveOrphans(x, to))

\* The two assignments that install the surrogate paths.
Install(x, t, to, fromState) ==
  InstallPaths([x.w EXCEPT !.tr[t].exited = x.exited], t, to, fromState,
               x.surrogateToPath, x.surrogateFromPath)

\* The guarded block from the slices to the installation, given the plan.
Substitute(w, t, to, fromState, stickyTransitions) ==
  Install(
    WithOrphans(
      AppendReactivated(
        ExitLoop(
          EnterLoop(
            StartSurrogates(
              ReloadInactiveLocals(ClearInactiveLocals(w), stickyTransitions.inactives),
              to, fromState, stickyTransitions.keep),
            t, stickyTransitions.enter, w.path[to].els, stickyTransitions.keep + 1),
          t, stickyTransitions.exit, w.path[fromState].els, stickyTransitions.keep + 1)),
      t, to),
    t, to, fromState)

Plan(w, t, to, toParams) ==
  Substitute(w, t, to, w.current, processTransition(w, CurrentTransition(w, to, toParams)))

\* The block guarded by "if (toStateSelf)" and "if (toState)".
PlanAndSubstitute(w, t, to, toParams) == Plan(SaveAndPush(w, t, to), t, to, toParams)

\* var idx = pendingTransitions.length
CaptureIdx(w, t) == [w EXCEPT !.tr[t].idx = Len(w.pendingTransitions)]

\* var fromState = $state.$current, fromParams = $state.params; toParams
CaptureFrom(w, t, toParams) ==
  [w EXCEPT !.tr[t].fromState = w.current,
            !.tr[t].fromParams = w.params,
            !.tr[t].toParams = toParams]

\* The closure as the call has set it up, before it looks at the target.
Entered(w, t, toParams) == CaptureFrom(Supersede(CaptureIdx(w, t)), t, toParams)

\* A guard that registers the rollback although the target is not resolved.
GuardedAlways(w, t, to, toParams) ==
  IF StateGet(to) /\ InternalState(to)
  THEN PlanAndSubstitute(w, t, to, toParams)
  ELSE [w EXCEPT !.pendingTransitions = Append(@, t), !.pendingRestore = t]

\* if (toStateSelf) { var toState = internalStates[...]; if (toState) { ... } }
Guarded(w, t, to, toParams) ==
  IF StateGet(to) /\ InternalState(to)
  THEN PlanAndSubstitute(w, t, to, toParams)
  ELSE w

\* The decorated transitionTo up to the call of the stock transitionTo.
Prepare(w, t, to, toParams) == Guarded(Entered(w, t, toParams), t, to, toParams)


\* var reload = options && options.reload || false; reloadStateTree; and
\* "delete options.reload" when reload is neither absent nor true: reload is
\* "none", "true" or a state name; asked is what the caller passed and reload
\* what the options hold for the engine.
ResolveReload(w, t, reload) ==
  [w EXCEPT !.tr[t].reloadStateTree =
              IF reload = "none" THEN "none"
              ELSE IF reload = "true" THEN w.tr[t].savedToStatePath.els[1].n
              ELSE IF StateGet(reload) THEN reload ELSE "none",
            !.tr[t].reload = IF reload = "true" THEN "true" ELSE "none"]

\* params.$$uirouterextrasreload = ownParams.$$uirouterextrasreload = tempParam,
\* or the two pushes, and the restore function that takes them back.
AddReloadParam(w, t, n) ==
  [w EXCEPT !.reloadParam[n] =
              IF w.hasParamSet
              THEN [params |-> 1, ownParams |-> 1]
              ELSE [params |-> @.params + 1, ownParams |-> @.ownParams + 1],
            !.tr[t].restoreFunctions =
              Append(@, [slot |-> "reloadParam", self |-> <<n, 0>>, old |-> << >>])]

\* if (reloadStateTree) { ... }
MarkReload(w, t) ==
  IF w.tr[t].reloadStateTree # "none"
  THEN AddReloadParam([w EXCEPT !.tr[t].paramsBefore = w.reloadParam],
                      t, w.tr[t].reloadStateTree)
  ELSE [w EXCEPT !.tr[t].paramsBefore = w.reloadParam]

\* The guarded block of a call that passes options.
PlanAndSubstituteReload(w, t, to, toParams, reload) ==
  Plan(MarkReload(ResolveReload(SaveAndPush(w, t, to), t, reload), t), t, to, toParams)

\* if (toStateSelf) { ... if (toState) { ... } } of a call that passes options;
\* outside the block the options are not touched.
GuardedReload(w, t, to, toParams, reload) ==
  IF StateGet(to) /\ InternalState(to)
  THEN PlanAndSubstituteReload(w, t, to, toParams, reload)
  ELSE [w EXCEPT !.tr[t].reload = reload]

\* The decorated transitionTo of a call that passes options, up to the call
\* of the stock transitionTo.
PrepareReload(w, t, to, toParams, reload) ==
  GuardedReload([Entered(w, t, toParams) EXCEPT !.tr[t].asked = reload],
                t, to, toParams, reload)


\* --------------------------------- the stock engine ($state_transitionTo)
\* ownParams of a path element: a blank surrogate's $$equals is always true; a
\* state, and the phase-2 surrogate that copies it, compare their own params.
OwnParamsEqual(e, toParams, fromParams) ==
  IF e.k \in {"real", "reactivate_phase2"} /\ OwnsParam(e.n)
  THEN toParams = fromParams
  ELSE TRUE

RECURSIVE EngineKeepFrom(_, _, _, _, _)
EngineKeepFrom(tp, fp, toParams, fromParams, i) ==
  IF /\ i <= Len(tp)
     /\ i <= Len(fp)
     /\ tp[i] = fp[i]
     /\ OwnParamsEqual(tp[i], toParams, fromParams)
  THEN EngineKeepFrom(tp, fp, toParams, fromParams, i + 1)
  ELSE i - 1

\* The synchronous part of the engine for a target it resolves: it reads
\* to.path and from.path, finds what it keeps, and becomes $state.transition.
EngineStart(w, t, to, toParams) ==
  [w EXCEPT !.tr[t].pc = "pending",
            !.tr[t].toPath = w.path[to].els,
            !.tr[t].fromPath = w.path[w.current].els,
            !.tr[t].keep = EngineKeepFrom(w.path[to].els, w.path[w.current].els,
                                          toParams, w.params, 1),
            !.transition = t]

\* The temporary parameter has a fresh value in toParams, so a state whose
\* ownParams hold it, and the phase-2 surrogate that copies such a state, never
\* compares equal: the kept prefix ends before it.
RECURSIVE ReloadKeepFrom(_, _, _, _)
ReloadKeepFrom(w, tp, keep, i) ==
  IF i > keep THEN keep
  ELSE IF /\ tp[i].k \in {"real", "reactivate_phase2"}
          /\ w.reloadParam[tp[i].n].ownParams > 0
       THEN i - 1
       ELSE ReloadKeepFrom(w, tp, keep, i + 1)

\* The synchronous part of the engine for a call whose toParams may hold the
\* temporary parameter.
EngineStartReload(w, t, to, toParams) ==
  LET w1 == EngineStart(w, t, to, toParams)
  IN IF w.tr[t].reloadStateTree # "none"
     THEN [w1 EXCEPT !.tr[t].keep = ReloadKeepFrom(w, w1.tr[t].toPath, w1.tr[t].keep, 1)]
     ELSE w1

\* Invoking the function held by a hook slot.  An entered or exited state's
\* wrapper hands the old hook to the registry, which runs it and then records
\* the state; the wrappers of inactivation and reactivation replace the hook.
RECURSIVE InvokeHook(_, _)
InvokeHook(w, hook) ==
  IF hook = << >> THEN w
  ELSE
    LET top == hook[Len(hook)]
        old == SubSeq(hook, 1, Len(hook) - 1)
    IN CASE top.w = "inactivated" -> stateInactivated(w, top.e)
         [] top.w = "reactivated" -> stateReactivated(w, top.e)
         [] top.w = "entering" -> stateEntering(InvokeHook(w, old), top.e, top.prm, FALSE)
         [] top.w = "updateParams" -> stateEntering(InvokeHook(w, old), top.e, top.prm, TRUE)
         [] top.w = "exiting" -> stateExiting(InvokeHook(w, old), top.e, w.tr[top.t].exited)
         [] OTHER -> w

HookKind(hook) == IF hook = << >> THEN "original" ELSE hook[Len(hook)].w

\* exiting.locals = null
ClearLocals(w, e) == IF IsReal(e) THEN [w EXCEPT !.locals[e.n] = 0] ELSE w

\* entering.locals = toLocals[l]
FreshLocals(w, t, e) == IF IsReal(e) THEN [w EXCEPT !.locals[e.n] = t] ELSE w

\* The engine invoked the hook found in the slot of e.
Log(w, hook, e, found) ==
  [w EXCEPT !.fired = Append(@, [hook |-> hook, e |-> e, as |-> HookKind(found)])]

\* exiting = fromPath[l]: its onExit is invoked, then exiting.locals = null.
ExitElement(w, e) ==
  Log(ClearLocals(InvokeHook(w, w.onExit[e.self]), e), "onExit", e, w.onExit[e.self])

\* The onEnter of the entering element is invoked.
EnterHook(w, e) == Log(InvokeHook(w, w.onEnter[e.self]), "onEnter", e, w.onEnter[e.self])

\* entering = toPath[l]: entering.locals = toLocals[l], then its onEnter is invoked.
EnterElement(w, t, e) == EnterHook(FreshLocals(w, t, e), e)

\* Exit hooks of fromPath[keep..] run from the last element to the first.
RECURSIVE ExitFrom(_, _, _, _)
ExitFrom(w, fp, keep, l) ==
  IF l <= keep THEN w ELSE ExitFrom(ExitElement(w, fp[l]), fp, keep, l - 1)

\* Enter hooks of toPath[keep..] run from the first element to the last.
RECURSIVE EnterTo(_, _, _, _)
EnterTo(w, t, tp, l) ==
  IF l > Len(tp) THEN w ELSE EnterTo(EnterElement(w, t, tp[l]), t, tp, l + 1)

\* $state.$current = to; $state.params = toParams; the promise resolves.
Reached(w, t, r) ==
  [w EXCEPT !.current = r.toState,
            !.params = r.toParams,
            !.tr[t].pc = "resolved",
            !.tr[t].value = r.toState]

\* The exits and enters of the transition whose closure and arrays are r.
RunHooks(w, t, r) ==
  EnterTo(ExitFrom(w, r.fromPath, r.keep, Len(r.fromPath)), t, r.toPath, r.keep + 1)

\* The engine's transition completes: exits, enters, then $state.$current = to.
EngineFinish(w, t) == Reached(RunHooks(w, t, w.tr[t]), t, w.tr[t])

\* ------------------------------------------------------- settle handlers
\* The messages of the engine's three sentinel rejections.
Errors == {"transition prevented", "transition aborted", "transition superseded"}

Resolved(v) == [kind |-> "resolved", val |-> v]

Rejected(v) == [kind |-> "rejected", val |-> v]

NoOutcome == [kind |-> "none", val |-> ""]

\* function transitionSuccess(state) { restore(); ...; return state; }
transitionSuccessValue(state) == Resolved(state)

\* A failure handler that returns the error, which resolves the promise.
transitionFailedSwallowed(err) == Resolved(err)

\* function transitionFailed(err) { restore(); ...; return $q.reject(err); }
transitionFailedValue(err) == Rejected(err)

\* The step just taken: its kind, the request it belongs to, the engine's
\* outcome, what the caller's promise got, the hooks the engine invoked, and
\* whether the handler found restore already noop.
Event(type, t, out, got, w, latched) ==
  [type |-> type, t |-> t, out |-> out, got |-> got, fired |-> w.fired,
   mid |-> w.mid, latched |-> latched]

\* The closure of a call whose handler has run (or that threw): nothing refers
\* to its saved paths, its restore functions or the engine's arrays any more.
Settled(r, pc) ==
  [NoCall EXCEPT !.pc = pc, !.accepted = r.accepted, !.noop = r.noop,
                 !.exited = r.exited]

\* The closure of call t is dropped.
Drop(w, t, pc) == [w EXCEPT !.tr[t] = Settled(@, pc)]

\* The engine holds the promise of call t.
Pending(w, t) == [w EXCEPT !.tr[t].pc = "pending"]

\* ----------------------------------------------------------------- actions
\* The step ends: the program is as w has it, w having run the step.
Step(w, stored, type, t, out, got, latched) ==
  /\ Store(stored)
  /\ ev' = Event(type, t, out, got, w, latched)

\* $state.transitionTo(to, toParams) for a name that resolves: the engine
\* returns its promise.
Returned(w, t) ==
  /\ Step(w, w, "request", t, NoOutcome, NoOutcome, FALSE)
  /\ nreq' = t

Call(to, toParams) ==
  Returned(EngineStart(Prepare(World, nreq + 1, to, toParams), nreq + 1, to, toParams),
           nreq + 1)

\* $state.transitionTo(to, toParams) for a name that does not resolve: the
\* engine throws, or returns a promise that is rejected later.
ReturnedUnknown(w, t, throws) ==
  /\ Step(w, IF throws THEN Drop(w, t, "threw") ELSE Pending(w, t),
          IF throws THEN "throw" ELSE "request", t, NoOutcome, NoOutcome, FALSE)
  /\ nreq' = t

CallUnknown(to, toParams, throws) ==
  ReturnedUnknown(Prepare(World, nreq + 1, to, toParams), nreq + 1, throws)

\* $state.transitionTo(to, toParams, options) for a name that resolves.
CallReload(to, toParams, reload) ==
  Returned(EngineStartReload(PrepareReload(World, nreq + 1, to, toParams, reload),
                             nreq + 1, to, toParams),
           nreq + 1)

Request(to, toParams) ==
  /\ nreq < MaxRequests
  /\ to \in RequestTargets
  /\ to # ParamTarget => toParams = 0
  /\ Call(to, toParams)

RequestUnknown(to, toParams, throws) ==
  /\ nreq < MaxRequests
  /\ to \in UnknownNames
  /\ CallUnknown(to, toParams, throws)

\* The engine runs the hooks of its latest transition and resolves its promise.
Committed(w, t) ==
  /\ Step(w, w, "commit", t, Resolved(w.tr[t].value), NoOutcome, FALSE)
  /\ UNCHANGED nreq

EngineCommit(t) ==
  /\ tr[t].pc = "pending"
  /\ tr[t].accepted
  /\ transition = t
  /\ Committed(EngineFinish(World, t), t)

\* A settle handler has run restore() and returns.
Delivered(w, t, out, got) ==
  /\ Step(w, Drop(w, t, "delivered"), "deliver", t, out, got, tr[t].noop)
  /\ UNCHANGED nreq

\* The success handler of the decorated transitionTo runs.
TransitionSuccess(t) ==
  /\ tr[t].pc = "resolved"
  /\ Delivered(restore(World, t), t, Resolved(tr[t].value), transitionSuccessValue(tr[t].value))

\* The engine rejects its promise and the failure handler runs.  A transition
\* that is no longer $state.transition can only fail.
TransitionFailed(t, err) ==
  /\ tr[t].pc = "pending"
  /\ err \in Errors
  /\ (err = "transition superseded") <=> (tr[t].accepted /\ transition # t)
  /\ ~tr[t].accepted => err = "transition aborted"
  /\ Delivered(restore(World, t), t, Rejected(err), transitionFailedValue(err))

Next ==
  \/ \E to \in RequestTargets, p \in ParamValues : Request(to, p)
  \/ \E to \in UnknownNames, throws \in BOOLEAN : RequestUnknown(to, 0, throws)
  \/ \E t \in Reqs : EngineCommit(t)
  \/ \E t \in Reqs : TransitionSuccess(t)
  \/ \E t \in Reqs, err \in Errors : TransitionFailed(t, err)

Spec == Init /\ [][Next]_vars

\* Longer behaviours over fewer inputs.
DeepTargets == {"A", "A.B", "P"}

DeepRequest(to) ==
  /\ nreq < MaxDeepRequests
  /\ to \in DeepTargets
  /\ Call(to, 0)

DeepRequestThrows(to) ==
  /\ nreq < MaxDeepRequests
  /\ to \in UnknownNames
  /\ CallUnknown(to, 0, TRUE)

NextDeep ==
  \/ \E to \in DeepTargets : DeepRequest(to)
  \/ \E to \in UnknownNames : DeepRequestThrows(to)
  \/ \E t \in Reqs : EngineCommit(t)
  \/ \E t \in Reqs : TransitionSuccess(t)

SpecDeep == Init /\ [][NextDeep]_vars

\* The calls of a behaviour of SpecScenario.
ScenarioTargets == {"", "A.X", "P", "P.S"}

\* Navigation between the root, the child A.X of the sticky state A, P, and the
\* sticky child P.S of P.
ScenarioRequest(to) ==
  /\ nreq < MaxScenarioRequests
  /\ to \in ScenarioTargets
  /\ Call(to, 0)

NextScenario ==
  \/ \E to \in ScenarioTargets : ScenarioRequest(to)
  \/ \E t \in Reqs : EngineCommit(t)
  \/ \E t \in Reqs : TransitionSuccess(t)
  \/ \E t \in Reqs, err \in Errors : TransitionFailed(t, err)

SpecScenario == Init /\ [][NextScenario]_vars

\* The same calls, begun with or without a value under a key without "@".
SpecRefresh == InitRefresh /\ [][NextScenario]_vars

\* The calls of a behaviour of SpecOrphans.
OrphanTargets == {"A", "A.B", "AB", "P"}

\* Navigation between A, its sticky child A.B, the sticky state AB and P, in
\* longer behaviours: calls and commits, the settle handlers not yet run, so
\* that each rollback is the one the next call runs.
OrphanRequest(to) ==
  /\ nreq < MaxOrphanRequests
  /\ to \in OrphanTargets
  /\ Call(to, 0)

NextOrphans ==
  \/ \E to \in OrphanTargets : OrphanRequest(to)
  \/ \E t \in Reqs : EngineCommit(t)

SpecOrphans == Init /\ [][NextOrphans]_vars

\* The calls of a behaviour of SpecUpdate.
UpdateTargets == {"A", "P"}

\* Navigation between A, asked for with either value of its parameter, and P,
\* with calls for a name that does not resolve among them.
UpdateRequest(to, toParams) ==
  /\ nreq < MaxUpdateRequests
  /\ to \in UpdateTargets
  /\ to # ParamTarget => toParams = 0
  /\ Call(to, toParams)

UpdateRequestUnknown(to) ==
  /\ nreq < MaxUpdateRequests
  /\ to \in UnknownNames
  /\ CallUnknown(to, 0, FALSE)

NextUpdate ==
  \/ \E to \in UpdateTargets, p \in ParamValues : UpdateRequest(to, p)
  \/ \E to \in UnknownNames : UpdateRequestUnknown(to)
  \/ \E t \in Reqs : EngineCommit(t)
  \/ \E t \in Reqs : TransitionSuccess(t)
  \/ \E t \in Reqs, err \in Errors : TransitionFailed(t, err)

SpecUpdate == Init /\ [][NextUpdate]_vars

\* The calls of a behaviour of SpecReload, and the values of options.reload:
\* absent, true, the name of a state, a name that does not resolve.
ReloadTargets == {"A", "P"}

ReloadOptions == {"none", "true", "A", "Z"}

\* Navigation between A and P with a reload option, with calls for a name that
\* does not resolve among them.
ReloadRequest(to, reload) ==
  /\ nreq < MaxReloadRequests
  /\ to \in ReloadTargets
  /\ reload \in ReloadOptions
  /\ CallReload(to, 0, reload)

ReloadRequestUnknown(to) ==
  /\ nreq < MaxReloadRequests
  /\ to \in UnknownNames
  /\ CallUnknown(to, 0, FALSE)

NextReload ==
  \/ \E to \in ReloadTargets, reload \in ReloadOptions : ReloadRequest(to, reload)
  \/ \E to \in UnknownNames : ReloadRequestUnknown(to)
  \/ \E t \in Reqs : EngineCommit(t)
  \/ \E t \in Reqs : TransitionSuccess(t)
  \/ \E t \in Reqs, err \in Errors : TransitionFailed(t, err)

SpecReload == InitReload /\ [][NextReload]_vars


\* ===================================================================== claims
\* A request has substitute arrays installed when some state's .path is an
\* array the request built.
Installed(t) == \E n \in Nodes : path[n].by = t

\* C1: accepting a request first rolls back the outstanding transition, so at
\* every moment at most one transition has its substitute path arrays installed
\* on the state nodes, and at each delegation to the engine only the newly
\* requested transition's substitutions are live.
C1_SingleSubstitution ==
  /\ Cardinality({t \in Reqs : Installed(t)}) <= 1
  /\ (ev.type = "request" /\ tr[ev.t].accepted) =>
       \A n \in Nodes : path[n].by \in {0, ev.t}


\* The request of the step just taken was accepted (its target resolved).
Accepted(t) == t \in Reqs /\ tr[t].accepted

\* C2: every accepted transition has the body of its rollback executed on every
\* exit path: it has run when the transition's outcome is delivered, and it has
\* run once a newer request has come in.
C2_RollbackOnEveryExit ==
  /\ (ev.type = "deliver" /\ Accepted(ev.t)) => ran[ev.t] >= 1
  /\ ev.type \in {"request", "throw"} =>
       \A t \in Reqs : (t < ev.t /\ Accepted(t)) => ran[t] >= 1

\* The step is the settle handler of request t.
HandlerStep(t) == tr[t].pc # "delivered" /\ tr'[t].pc = "delivered"

\* C3: the body of a transition's restore function executes at most once, and
\* a settle handler that finds the rollback already done changes no path, no
\* hook slot, not pendingRestore and not pendingTransitions.
C3_RollbackIdempotent ==
  [][\A t \in Reqs :
       /\ ran'[t] <= 1
       /\ (HandlerStep(t) /\ tr[t].noop) =>
            /\ path' = path
            /\ onEnter' = onEnter
            /\ onExit' = onExit
            /\ pendingRestore' = pendingRestore
            /\ pendingTransitions' = pendingTransitions
            /\ ran' = ran]_vars

\* A settle handler of an accepted transition found its rollback already done
\* by a superseding request.
C3_Witness == ev.type = "deliver" /\ Accepted(ev.t) /\ ev.latched /\ ran[ev.t] = 1

\* C4 as stated: whenever the decorated transitionTo returns or throws, and
\* whenever a transition's outcome is delivered, every state's path is its real
\* ancestor chain.
C4_PathsRealAtEveryReturn ==
  ev.type \in {"request", "throw", "deliver"} =>
    \A n \in Nodes : path[n].els = RealPath(n).els

\* C4 amended: when a transition's outcome is delivered, no state's path is an
\* array that transition built.
C4_OwnSubstitutesGoneAtDelivery ==
  ev.type = "deliver" => \A n \in Nodes : path[n].by # ev.t

\* The outcome of a committed transition that inactivated a state is delivered
\* by the handler that runs its rollback.
C4_Witness ==
  /\ ev.type = "deliver"
  /\ Accepted(ev.t)
  /\ ev.out.kind = "resolved"
  /\ ~ev.latched
  /\ ev.mid # NoMid
  /\ inactiveStates # << >>


\* The hook slots hold no wrapper built by request t.
NoWrapperOf(hooks, t) ==
  \A s \in SelfIds : \A i \in 1..Len(hooks[s]) : hooks[s][i].t # t

\* The hook held by slot s of hooks has a wrapper built by request t.
WrappedBy(hooks, s, t) == \E i \in 1..Len(hooks[s]) : hooks[s][i].t = t

\* The self objects of the state nodes (a phase-1 surrogate has one of its own).
NodeSelves == {<<n, 0>> : n \in Nodes}

\* The body of request t's restore function runs in the step.
RollbackStep(t) == ran'[t] = ran[t] + 1

\* C5: substitution followed by rollback is a round trip: when the rollback of
\* an accepted transition has run, toState.path and fromState.path are the very
\* arrays saved before the substitution, and every hook slot a surrogate
\* factory wrapped holds the hook it held before the request.
C5_RoundTrip ==
  [][\A t \in Reqs :
       (RollbackStep(t) /\ tr[t].accepted) =>
         /\ ev'.mid.path[tr[t].toState] = tr[t].savedToStatePath
         /\ ev'.mid.path[tr[t].fromState] = tr[t].savedFromStatePath
         /\ \A i \in 1..Len(tr[t].restoreFunctions) :
              LET f == tr[t].restoreFunctions[i]
              IN IF f.slot = "onEnter"
                 THEN ev'.mid.onEnter[f.self] = tr[t].before.onEnter[f.self]
                 ELSE ev'.mid.onExit[f.self] = tr[t].before.onExit[f.self]
         /\ \A s \in NodeSelves :
              /\ WrappedBy(onEnter, s, t) => ev'.mid.onEnter[s] = tr[t].before.onEnter[s]
              /\ WrappedBy(onExit, s, t) => ev'.mid.onExit[s] = tr[t].before.onExit[s]
              /\ ~WrappedBy(ev'.mid.onEnter, s, t)
              /\ ~WrappedBy(ev'.mid.onExit, s, t)]_vars

\* A request has just superseded a transition that had put an inactivate
\* surrogate on the from-path and wrapped an onEnter and an onExit slot; the
\* rollback left every slot it had wrapped with the original hook.
C5_Witness ==
  /\ ev.type = "request"
  /\ ev.mid # NoMid
  /\ \E t \in Reqs :
       /\ tr[t].accepted /\ tr[t].noop /\ tr[t].pc = "pending"
       /\ \E i \in 1..Len(tr[t].fromPath) : tr[t].fromPath[i].k = "inactivate"
       /\ \E i \in 1..Len(tr[t].restoreFunctions) : tr[t].restoreFunctions[i].slot = "onEnter"
       /\ \E i \in 1..Len(tr[t].restoreFunctions) : tr[t].restoreFunctions[i].slot = "onExit"
       /\ \A i \in 1..Len(tr[t].restoreFunctions) :
            /\ ev.mid.onEnter[tr[t].restoreFunctions[i].self] = << >>
            /\ ev.mid.onExit[tr[t].restoreFunctions[i].self] = << >>


\* C6: a TransitionRecord is on pendingTransitions from the acceptance of its
\* request until that transition's restore step has run, whatever way it ends.
C6_RecordLifecycle ==
  \A t \in Reqs :
    tr[t].accepted => (SeqHas(pendingTransitions, t) <=> ran[t] = 0)

\* C7: the engine's outcome is passed on unchanged: the caller's promise
\* resolves with the state the engine reached or rejects with the engine's
\* error, the sentinel rejections included, and for an accepted transition the
\* rollback has run by then.
C7_OutcomePassedThrough ==
  ev.type = "deliver" =>
    /\ ev.got = ev.out
    /\ Accepted(ev.t) => ran[ev.t] >= 1

\* The engine rejected an accepted transition as superseded and the caller got
\* that rejection.
C7_Witness ==
  /\ ev.type = "deliver"
  /\ Accepted(ev.t)
  /\ ev.out = Rejected("transition superseded")
  /\ ev.got.kind = "rejected"

\* The step is a call of transitionTo whose target does not resolve.
UnresolvedCall(t) == nreq = t - 1 /\ nreq' = t /\ ~tr'[t].accepted

Fired(e, n, kind) ==
  \E i \in 1..Len(e.fired) : e.fired[i].as = kind /\ e.fired[i].e.n = n

\* C9: when a committed transition reactivates a sticky node that an earlier
\* committed transition inactivated, the locals object the node holds after the
\* reactivation is the one it held just before the inactivation: the engine's
\* steps in between never cleared or replaced it.
C9_IdentityPreserved ==
  ev.type = "commit" =>
    \A n \in Nodes :
      Fired(ev, n, "reactivated") =>
        (locals[n] # 0 /\ locals[n] = retained[n])

\* Position of the exit of state n, by its exit surrogate, among the hooks the
\* engine invoked in the step; 0 when it was not invoked.
ExitPos(n) ==
  LET hits == {i \in 1..Len(ev.fired) :
                 /\ ev.fired[i].hook = "onExit"
                 /\ ev.fired[i].as = "exiting"
                 /\ ev.fired[i].e = Real(n)}
  IN IF hits = {} THEN 0 ELSE CHOOSE i \in hits : TRUE

\* C10: when the target A is reactivated and has the inactive descendants A.B
\* and A.B.C, both get exit surrogates and, the engine exiting the from-path
\* tail from its last element to its first, A.B.C's exit hook runs before
\* A.B's.
C10_OrphansDeeperFirst ==
  (ev.type = "commit" /\ ExitPos("A.B") # 0 /\ ExitPos("A.B.C") # 0) =>
    ExitPos("A.B.C") < ExitPos("A.B")

\* Node n is in the registry's set of inactive states.
IsInactive(n) == \E i \in 1..Len(inactiveStates) : inactiveStates[i].n = n

\* The engine holds no transition: no promise of it is outstanding.
NoneInFlight == \A t \in Reqs : tr[t].pc # "pending"

\* C11: whenever no transition is in flight, after a commit and after a
\* rollback by rejection or supersession, the "@" entries of the aggregated
\* inactive view map are exactly the own view entries of the nodes that are in
\* the inactive set.
C11_RegistryConsistent ==
  (ev.type \in {"commit", "deliver"} /\ NoneInFlight) =>
    \A n \in Nodes \ {""} :
      /\ ipLocals[n] # 0 <=> IsInactive(n)
      /\ ipLocals[n] # 0 => ipLocals[n] = locals[n]

\* C12: in every reachable state every node in the inactive registry has its
\* retained locals attached, not cleared by the engine's exit step, and a node
\* that leaves the registry by reactivation has them when the phase-2
\* surrogate's onEnter has run.
C12_InactiveKeepLocals ==
  /\ \A n \in Nodes : IsInactive(n) => locals[n] # 0
  /\ ev.type = "commit" =>
       \A n \in Nodes : Fired(ev, n, "reactivated") => locals[n] # 0

\* The function a hook slot holds, when a surrogate factory put it there.
TopWrapper(hook) == hook[Len(hook)]

\* The hook a wrapper closes over: what the slot held before it was wrapped.
OldHook(hook) == SubSeq(hook, 1, Len(hook) - 1)

\* The real nodes of the substitute to-path of request t whose onEnter holds a
\* function built by request t: the nodes classified enter or updateStateParams.
EnterWrapped(t) ==
  {e \in {tr[t].toPath[i] : i \in 1..Len(tr[t].toPath)} :
     /\ IsReal(e)
     /\ onEnter[e.self] # << >>
     /\ TopWrapper(onEnter[e.self]).t = t}

\* C13: for every to-path node classified enter or updateStateParams, the
\* onEnter installed for the transition notifies the registry (stateEntering)
\* with that node, the transition's to-params and the node's original onEnter.
C13_EnterNotifiesWithToParams ==
  (ev.type = "request" /\ Accepted(ev.t)) =>
    \A e \in EnterWrapped(ev.t) :
      /\ TopWrapper(onEnter[e.self]).w \in {"entering", "updateParams"}
      /\ TopWrapper(onEnter[e.self]).e = e
      /\ OldHook(onEnter[e.self]) = tr[ev.t].before.onEnter[e.self]
      /\ TopWrapper(onEnter[e.self]).prm = tr[ev.t].toParams

\* The step is the call of transitionTo numbered t, and its target resolved.
AcceptedCall(t) == nreq = t - 1 /\ nreq' = t /\ tr'[t].accepted

\* Path array els holds an element of kind k for node n.
HasElem(els, k, n) == \E i \in 1..Len(els) : els[i].k = k /\ els[i].n = n

\* The target of call t was inactive, with parameters other than the call's.
InactiveTargetParamsChanged(t) ==
  /\ AcceptedCall(t)
  /\ IsInactive(tr'[t].toState)
  /\ HasParam(tr'[t].toState)
  /\ inactiveParams[tr'[t].toState] # tr'[t].toParams

\* C14: when an inactive node S is the target of a transition with changed
\* parameters, S is handled as updateStateParams: no phase-1 and no phase-2
\* surrogate is built for S, the real node S is on the substitute to-path only,
\* its onEnter is the param-update wrapper, and when the engine has entered it S
\* holds freshly resolved locals, not the retained ones.
C14_ParamChangeForcesFreshEntry ==
  [][/\ \A t \in Reqs :
          InactiveTargetParamsChanged(t) =>
            /\ ~HasElem(tr'[t].toPath, "reactivate_phase1", tr'[t].toState)
            /\ ~HasElem(tr'[t].toPath, "reactivate_phase2", tr'[t].toState)
            /\ ~HasElem(tr'[t].fromPath, "reactivate_phase1", tr'[t].toState)
            /\ HasElem(tr'[t].toPath, "real", tr'[t].toState)
            /\ ~HasElem(tr'[t].fromPath, "real", tr'[t].toState)
            /\ TopWrapper(onEnter'[<<tr'[t].toState, 0>>]).w = "updateParams"
            /\ TopWrapper(onEnter'[<<tr'[t].toState, 0>>]).t = t
     /\ ev'.type = "commit" =>
          \A n \in Nodes :
            Fired(ev', n, "updateParams") =>
              /\ locals'[n] = ev'.t
              /\ locals'[n] # locals[n]
              /\ ~IsInactive(n)']_vars

\* The transition of the step just taken goes from state a to state b.
FromTo(a, b) == tr[ev.t].fromState = a /\ tr[ev.t].toState = b

\* Position of the element of kind k for node n in a path array, 0 if none.
ElemPos(els, k, n) ==
  IF HasElem(els, k, n)
  THEN CHOOSE i \in 1..Len(els) : els[i].k = k /\ els[i].n = n
  ELSE 0

\* C15: with A sticky and A.X its child: once root->A.X and then A.X->root
\* have committed, A is in the inactive registry and A.X is not; a further
\* transition root->A.X treats A as reactivate (the phase-1 surrogate on both
\* substitute paths, the phase-2 surrogate on the to-path) and A.X as a fresh
\* enter, and when it has committed the registry is empty.
C15_StickyParentPlainChild ==
  /\ (ev.type = "commit" /\ FromTo("A.X", "")) =>
       (IsInactive("A") /\ ~IsInactive("A.X"))
  /\ (ev.type = "request" /\ Accepted(ev.t) /\ FromTo("", "A.X") /\ IsInactive("A")) =>
       /\ ElemPos(tr[ev.t].toPath, "reactivate_phase1", "A") # 0
       /\ ElemPos(tr[ev.t].toPath, "reactivate_phase1", "A")
            = ElemPos(tr[ev.t].fromPath, "reactivate_phase1", "A")
       /\ HasElem(tr[ev.t].toPath, "reactivate_phase2", "A")
       /\ ~HasElem(tr[ev.t].toPath, "real", "A")
       /\ HasElem(tr[ev.t].toPath, "real", "A.X")
       /\ TopWrapper(onEnter[<<"A.X", 0>>]).w = "entering"
  /\ (ev.type = "commit" /\ FromTo("", "A.X")) => inactiveStates = << >>

\* The step is the call of transitionTo numbered t.
CallStep(t) == tr[t].pc = "none" /\ tr'[t].pc # "none"

\* The order of the stages of a request: the engine holds its promise, the
\* engine has committed it, its outcome has been delivered.
StageOrder(a, b) ==
  CASE a = "none" -> b \in {"none", "pending", "threw"}
    [] a = "pending" -> b \in {"pending", "resolved", "delivered"}
    [] a = "resolved" -> b \in {"resolved", "delivered"}
    [] OTHER -> b = a

\* C16: a request goes through planning, substitution, delegation and then
\* either commit or rollback: the engine is invoked once, in the call itself,
\* and for an accepted request it reads the substitute paths the call has
\* installed; the stages never go backwards; the engine commits a transition
\* only while it is delegated, not once its rollback has run; the rollback has
\* run exactly once when the outcome is delivered; and once the rollback of a
\* transition has run, no later step of that transition changes a path or a
\* hook slot.
C16_RequestLifecycle ==
  [][\A t \in Reqs :
       /\ StageOrder(tr[t].pc, tr'[t].pc)
       /\ CallStep(t) => (nreq = t - 1 /\ nreq' = t)
       /\ (CallStep(t) /\ tr'[t].accepted) =>
            /\ tr'[t].pc = "pending"
            /\ transition' = t
            /\ ran'[t] = 0
            /\ path'[tr'[t].toState].by = t
            /\ path'[tr'[t].fromState].by = t
            /\ tr'[t].toPath = path'[tr'[t].toState].els
            /\ tr'[t].fromPath = path'[tr'[t].fromState].els
       /\ (tr[t].pc = "pending" /\ tr'[t].pc = "resolved") => ran[t] = 0
       /\ (tr'[t].pc = "delivered" /\ tr'[t].accepted) => ran'[t] = 1
       /\ (tr[t].accepted /\ ran[t] >= 1 /\ tr'[t] # tr[t]) =>
            /\ path' = path
            /\ onEnter' = onEnter
            /\ onExit' = onExit]_vars

\* The indices of the original to-path of call t, beyond the pivot, that the
\* planner classifies reactivate: the node is inactive with unchanged params.
ReactivateIdx(t) ==
  {i \in (Keep(tr'[t].savedFromStatePath.els, tr'[t].savedToStatePath.els) + 1)
           ..Len(tr'[t].savedToStatePath.els) :
     EnterClass(World, tr'[t].savedToStatePath.els[i], tr'[t].toParams) = "reactivate"}

\* The positions of the elements of kind k for node n in a path array.
ElemIdx(els, k, n) == {i \in 1..Len(els) : els[i].k = k /\ els[i].n = n}

\* The positions of the elements of kind k in a path array.
KindIdx(els, k) == {i \in 1..Len(els) : els[i].k = k}

\* C17: for every to-path index classified reactivate exactly two surrogates
\* are built: the phase-1 surrogate is the same object at the same position of
\* the substitute from-path and the substitute to-path, so that the engine
\* keeps it, and the phase-2 surrogate is on the substitute to-path only, after
\* every phase-1 surrogate; the engine runs the phase-2 onEnter, which leaves
\* the node with its retained locals and reports it reactivated.
C17_TwoPhaseReactivation ==
  [][/\ \A t \in Reqs :
          AcceptedCall(t) =>
            \A i \in ReactivateIdx(t) :
              LET n == tr'[t].savedToStatePath.els[i].n
              IN /\ Cardinality(ElemIdx(tr'[t].toPath, "reactivate_phase1", n)) = 1
                 /\ Cardinality(ElemIdx(tr'[t].toPath, "reactivate_phase2", n)) = 1
                 /\ ElemIdx(tr'[t].fromPath, "reactivate_phase1", n)
                      = ElemIdx(tr'[t].toPath, "reactivate_phase1", n)
                 /\ ElemIdx(tr'[t].fromPath, "reactivate_phase2", n) = {}
                 /\ \A j \in ElemIdx(tr'[t].toPath, "reactivate_phase1", n) :
                      /\ tr'[t].fromPath[j] = tr'[t].toPath[j]
                      /\ j <= tr'[t].keep
                 /\ \A j \in KindIdx(tr'[t].toPath, "reactivate_phase1") :
                      \A k \in ElemIdx(tr'[t].toPath, "reactivate_phase2", n) : j < k
     /\ ev'.type = "commit" =>
          \A i \in KindIdx(tr[ev'.t].toPath, "reactivate_phase2") :
            /\ Fired(ev', tr[ev'.t].toPath[i].n, "reactivated")
            /\ ~HasElem(inactiveStates', "real", tr[ev'.t].toPath[i].n)
            /\ locals'[tr[ev'.t].toPath[i].n] # 0
            /\ locals'[tr[ev'.t].toPath[i].n] = retained[tr[ev'.t].toPath[i].n]]_vars

\* The target of call t is the last state the enter loop reactivates or
\* updates the parameters of: it is beyond the pivot and inactive.
TargetTerminal(t) ==
  LET tp == tr'[t].savedToStatePath.els
      fp == tr'[t].savedFromStatePath.els
  IN /\ Len(tp) > Keep(fp, tp)
     /\ tp[Len(tp)] = Real(tr'[t].toState)
     /\ EnterClass(World, tp[Len(tp)], tr'[t].toParams) \in {"reactivate", "updateStateParams"}

\* name(n) starts with name(a) followed by "."
DottedUnder(n, a) == StartsWith(NameChars(n), Append(NameChars(a), "."))

\* The inactive nodes call t has to evict.
ExpectedOrphans(t) ==
  IF TargetTerminal(t)
  THEN {n \in Nodes : IsInactive(n) /\ DottedUnder(n, tr'[t].toState)}
  ELSE {}

\* The states call t put on the substitute from-path that were not on the
\* from-path before.
OrphanExits(t) ==
  {tr'[t].fromPath[i].n : i \in
     {j \in 1..Len(tr'[t].fromPath) :
        /\ IsReal(tr'[t].fromPath[j])
        /\ ~SeqHas(tr'[t].savedFromStatePath.els, tr'[t].fromPath[j])}}

\* C18: exit surrogates for inactive orphans are added exactly when the target
\* is the terminal reactivated (or param-updated) node, and then for exactly
\* the inactive nodes whose name starts with the target's name followed by ".";
\* when the engine has run the transition, the inactive nodes that are neither
\* such descendants nor on the to-path are still inactive.
C18_OrphanEvictionScope ==
  [][/\ \A t \in Reqs :
          AcceptedCall(t) =>
            /\ OrphanExits(t) = ExpectedOrphans(t)
            /\ \A n \in OrphanExits(t) :
                 /\ TopWrapper(onExit'[<<n, 0>>]).w = "exiting"
                 /\ TopWrapper(onExit'[<<n, 0>>]).t = t
                 /\ Cardinality(ElemIdx(tr'[t].fromPath, "real", n)) = 1
     /\ ev'.type = "commit" =>
          \A n \in Nodes :
            (/\ IsInactive(n)
             /\ ~DottedUnder(n, tr[ev'.t].toState)
             /\ \A i \in 1..Len(tr[ev'.t].toPath) : tr[ev'.t].toPath[i].n # n)
              => HasElem(inactiveStates', "real", n)]_vars

\* The engine has committed a transition to A, which was inactive together
\* with A.B and AB when it was requested: A.B was exited as an orphan and AB,
\* whose name starts with A's but without the dot, is still inactive.
C18_Witness ==
  /\ ev.type = "commit"
  /\ tr[ev.t].toState = "A"
  /\ Fired(ev, "A", "reactivated")
  /\ Fired(ev, "A.B", "exiting")
  /\ IsInactive("AB")
  /\ ~Fired(ev, "AB", "inactivated")
  /\ ~IsInactive("A.B")
  /\ ~IsInactive("A")

\* The states the planner of call t returns as inactives: it reads the paths
\* the call saved and the registry as the call found it.
PlannedInactives(t) ==
  processTransition(
    [World EXCEPT !.path[tr'[t].toState] = tr'[t].savedToStatePath,
                  !.path[tr'[t].fromState] = tr'[t].savedFromStatePath],
    [toState |-> tr'[t].toState, toParams |-> tr'[t].toParams,
     fromState |-> tr'[t].fromState, fromParams |-> tr'[t].fromParams]).inactives

\* C19: on every accepted call every "@" entry of the aggregated inactive view
\* map is removed and the map is loaded again, so that when the substitute
\* paths are installed its "@" entries are exactly the own "@" locals of the
\* planner's inactives, each the very object the node holds; what the map
\* holds under a key without "@" is left as it was.
C19_RefreshOnAcceptedCall ==
  [][\A t \in Reqs :
       AcceptedCall(t) =>
         /\ \A n \in Nodes :
              ipLocals'[n] =
                IF HasElem(PlannedInactives(t), "real", n) /\ n # "" THEN locals'[n] ELSE 0
         /\ ipOther' = ipOther]_vars

\* A call found an "@" entry on the map whose node is not among the planner's
\* inactives and a value under a key without "@": the entry is gone, an entry
\* of a node that will be inactive is there, and the other value is kept.
C19_Witness ==
  /\ ev.type = "request"
  /\ Accepted(ev.t)
  /\ ipOther = 1
  /\ \E n \in Nodes : ipLocals[n] # 0 /\ ipLocals[n] = locals[n]
  /\ \E n \in Nodes : ipLocals[n] = 0 /\ IsInactive(n) /\ locals[n] # 0

\* The number of leading elements the planner keeps for call t, from the paths
\* the call saved.
PlannedKeep(r) == Keep(r.savedFromStatePath.els, r.savedToStatePath.els)

\* No function built by call t is in the hook slot.
NotWrappedBy(hook, t) == \A j \in 1..Len(hook) : hook[j].t # t

\* The substitute paths call t installs begin with the kept real nodes, in the
\* order of the original paths.
KeptPrefixSame(t) ==
  \A i \in 1..PlannedKeep(tr'[t]) :
    /\ IsReal(tr'[t].savedToStatePath.els[i])
    /\ path'[tr'[t].toState].els[i] = tr'[t].savedToStatePath.els[i]
    /\ path'[tr'[t].fromState].els[i] = tr'[t].savedFromStatePath.els[i]

\* Call t put no function of its own in a hook slot of a kept node.
KeptHooksSame(t) ==
  \A i \in 1..PlannedKeep(tr'[t]) :
    /\ NotWrappedBy(onEnter'[tr'[t].savedToStatePath.els[i].self], t)
    /\ NotWrappedBy(onExit'[tr'[t].savedToStatePath.els[i].self], t)

\* The engine, completing the transition of call t, invoked no hook of a node
\* the planner kept.
KeptHooksNotFired(t) ==
  \A i \in 1..PlannedKeep(tr[t]) :
    \A j \in 1..Len(ev'.fired) : ev'.fired[j].e.n # tr[t].savedToStatePath.els[i].n

\* C20: the first keep elements of both substitute paths are the same real
\* nodes, in the same order, as the first keep elements of the original paths;
\* no kept node has its onEnter or onExit replaced; and during the delegated
\* transition the engine fires neither an enter nor an exit hook of a kept node.
C20_KeptPrefixUntouched ==
  [][/\ \A t \in Reqs : AcceptedCall(t) => KeptPrefixSame(t) /\ KeptHooksSame(t)
     /\ ev'.type = "commit" => KeptHooksNotFired(ev'.t)]_vars

\* The step is the settle handler of call t, whose transition a later call
\* had rolled back.
LateSettle(t) ==
  /\ ev'.type = "deliver"
  /\ ev'.t = t
  /\ tr[t].accepted
  /\ tr[t].noop

\* C22: when a transition was rolled back by the arrival of a later call and
\* its engine promise settles afterwards, its handler changes no path array, no
\* hook slot, not pendingRestore and not pendingTransitions: the substitute
\* paths and the pendingRestore of the later transition stay as they are.
C22_LateSettleInert ==
  [][\A t \in Reqs :
       LateSettle(t) =>
         /\ path' = path
         /\ onEnter' = onEnter
         /\ onExit' = onExit
         /\ pendingRestore' = pendingRestore
         /\ pendingTransitions' = pendingTransitions]_vars

\* The handler of a superseded transition has run while a later transition has
\* its substitute paths installed and its rollback pending.
C22_Witness ==
  /\ ev.type = "deliver"
  /\ ev.latched
  /\ Accepted(ev.t)
  /\ ev.out.kind = "rejected"
  /\ pendingRestore > ev.t
  /\ Installed(pendingRestore)
  /\ pendingTransitions # << >>

\* Accepted call t has its substitutions installed and its rollback has not run.
Outstanding(t) == Accepted(t) /\ Installed(t) /\ ran[t] = 0

\* C23: in every reachable state pendingRestore is non-null exactly when some
\* accepted transition has its substitutions installed and not yet rolled back,
\* and then it is the rollback of that transition; the settle handler of another
\* call, a call whose target did not resolve included, neither clears nor
\* replaces it.
C23_PendingRestoreTracks ==
  [][/\ (pendingRestore' # 0) <=> (\E t \in Reqs : Outstanding(t)')
     /\ \A t \in Reqs : Outstanding(t)' => pendingRestore' = t
     /\ (ev'.type = "deliver" /\ ev'.t # pendingRestore) =>
          pendingRestore' = pendingRestore]_vars

\* Node a is above node n in the tree.
ProperAncestor(a, n) ==
  a # n /\ \E i \in 1..Len(AncestorNames(n)) : AncestorNames(n)[i] = a

\* No enter hook of a node was invoked after an enter hook of a node below it.
RootToLeaf(fired) ==
  \A i \in 1..Len(fired) : \A j \in 1..Len(fired) :
    (i < j /\ fired[i].hook = "onEnter" /\ fired[j].hook = "onEnter")
      => ~ProperAncestor(fired[j].e.n, fired[i].e.n)

\* C24: the engine invokes the enter hooks of the to-path nodes in root-to-leaf
\* order of the real nodes: when a transition reactivates an ancestor and
\* freshly enters a descendant of it, the ancestor's reactivation hook is
\* invoked before the descendant's wrapped onEnter.
C24_EnterHooksTreeOrder ==
  ev.type = "commit" => RootToLeaf(ev.fired)

\* The step runs the body of the rollback of accepted call t.
RollsBack(t) == tr[t].accepted /\ ran[t] = 0 /\ ran'[t] = 1

\* No node has the temporary parameter.
NoReloadParam == \A n \in Nodes : reloadParam[n] = [params |-> 0, ownParams |-> 0]

\* Call t, accepted in the step, carries the temporary parameter on the root of
\* the subtree it reloads, in params and in ownParams, and on no other node
\* more than before.
ReloadParamAdded(t) ==
  LET n == tr'[t].reloadStateTree
  IN /\ tr'[t].asked = "true" => n = ""
     /\ (tr'[t].asked \in Nodes) => n = tr'[t].asked
     /\ (tr'[t].asked \notin Nodes \cup {"true"}) => n = "none"
     /\ n # "none" => /\ reloadParam'[n].params >= 1
                      /\ reloadParam'[n].ownParams >= 1
     /\ \A m \in Nodes \ {n} : reloadParam'[m] = tr'[t].paramsBefore[m]

\* The rollback of t in the step left the parameter sets as they were before
\* t added to them; a call accepted in the same step starts from them.
ReloadParamRemoved(t) ==
  IF \E u \in Reqs : AcceptedCall(u)
  THEN \A u \in Reqs : AcceptedCall(u) => tr'[u].paramsBefore = tr[t].paramsBefore
  ELSE reloadParam' = tr[t].paramsBefore

\* The options the engine gets from call t, accepted in the step.
ReloadOptionPassed(t) ==
  /\ tr'[t].asked = "true" => tr'[t].reload = "true"
  /\ tr'[t].asked # "true" => tr'[t].reload = "none"

\* C21: a call with a reload option adds the parameter $$uirouterextrasreload
\* to the params and the ownParams of the root of the reloaded subtree for the
\* one transition only: after the rollback of the transition, by success,
\* rejection or a later call, both are what they were before, and when every
\* rollback has run no node has the parameter; when reload is a state name
\* and not true, the option is removed from the options the engine gets.
C21_ReloadMarkerTransient ==
  [][/\ \A t \in Reqs :
          /\ AcceptedCall(t) => ReloadParamAdded(t) /\ ReloadOptionPassed(t)
          /\ RollsBack(t) => ReloadParamRemoved(t)
     /\ (\A t \in Reqs : tr'[t].accepted => ran'[t] >= 1) => NoReloadParam']_vars

====
